---- MODULE Spec2Model ----
(***************************************************************************)
(* Model of tasks/utils.py: read_contents, format_messages, print_header   *)
(* and the switch_python_version task.                                     *)
(*                                                                         *)
(* A Python str is a sequence of one-character strings (one element per    *)
(* code point), so that len, startswith, split, rstrip, upper and the      *)
(* format mini-language are computed as Python computes them.              *)
(* None-or-str values are sequences of length 0 (None) or 1.               *)
(***************************************************************************)
EXTENDS Integers, Sequences, FiniteSets, TLC

VARIABLES
    pc,                   \* position in the function being run
    out,                  \* observable events so far (prints, sechos, ctx.run calls)
    raised,               \* exception that ended the call, "none" if none
    exit_code,            \* exit status the invoke program ends with
    env_CIRCLECI,         \* os.getenv("CIRCLECI", "")
    columns,              \* shutil.get_terminal_size((80, 20)).columns
    text, level, icon,    \* arguments of print_header
    file_content,         \* characters stored in the file given to read_contents
    strip_newline,        \* argument of read_contents
    contents,             \* value returned by read_contents
    messages,             \* argument of format_messages
    success_pattern,      \* argument of format_messages
    version,              \* argument of switch_python_version
    pyenv_stdout,         \* what `pyenv versions --bare` prints when it succeeds
    python_versions,      \* local of switch_python_version
    scan_i,               \* index of the for loop of switch_python_version
    pyenv_python_version  \* local of switch_python_version

vars == <<pc, out, raised, exit_code, env_CIRCLECI, columns, text, level, icon,
          file_content, strip_newline, contents, messages, success_pattern,
          version, pyenv_stdout, python_versions, scan_i, pyenv_python_version>>

headerVars == <<text, level, icon>>
envVars    == <<env_CIRCLECI, columns>>
readVars   == <<file_content, strip_newline, contents>>
formatVars == <<messages, success_pattern>>
switchVars == <<version, pyenv_stdout, python_versions, scan_i, pyenv_python_version>>

----------------------------------------------------------------------------
(* Bounds of the model *)

MaxInstalled  == 3     \* installed versions listed by the query
MaxContentLen == 5     \* characters in a file
MaxMessageLen == 3     \* characters in a message
MaxTextLen    == 2     \* characters in a header text
MaxColumns    == 6     \* small terminal widths tried besides 80

----------------------------------------------------------------------------
(* Python values and str methods *)

None    == <<>>
Some(v) == <<v>>

\* Truth value of a None-or-str: None and "" are false.
Truthy(opt) == opt # None /\ opt[1] # <<>>

NL == "\n"
CR == "\r"

\* Code points that are not ASCII, by name.
SNAKE  == "U+1F40D"
ESZETT == "U+00DF"

Max(a, b) == IF a >= b THEN a ELSE b

RECURSIVE Concat(_)
Concat(ss) == IF ss = <<>> THEN <<>> ELSE Head(ss) \o Concat(Tail(ss))

\* sep.join(ss)
RECURSIVE Join(_, _)
Join(sep, ss) ==
    IF ss = <<>> THEN <<>>
    ELSE IF Len(ss) = 1 THEN ss[1]
    ELSE ss[1] \o sep \o Join(sep, Tail(ss))

\* s.split(sep) for a one-character sep
RECURSIVE Split(_, _)
Split(s, sep) ==
    IF \E i \in 1..Len(s) : s[i] = sep
    THEN LET i == CHOOSE k \in 1..Len(s) :
                      s[k] = sep /\ \A j \in 1..(k - 1) : s[j] # sep
         IN <<SubSeq(s, 1, i - 1)>> \o Split(SubSeq(s, i + 1, Len(s)), sep)
    ELSE <<s>>

\* s.startswith(prefix)
StartsWith(s, prefix) ==
    Len(prefix) <= Len(s) /\ SubSeq(s, 1, Len(prefix)) = prefix

Digits == <<"0", "1", "2", "3", "4", "5", "6", "7", "8", "9">>

DigitValue(c) == (CHOOSE i \in 1..10 : Digits[i] = c) - 1

IsDigit(c) == \E i \in 1..10 : Digits[i] = c

RECURSIVE DigitsValue(_)
DigitsValue(s) ==
    IF Len(s) = 0 THEN 0
    ELSE 10 * DigitsValue(SubSeq(s, 1, Len(s) - 1)) + DigitValue(s[Len(s)])

\* int(s) for a str without white space or underscores: Some(n) for an optional
\* sign and at least one decimal digit, None where int raises ValueError
ParseInt(s) ==
    LET signed == s # <<>> /\ s[1] \in {"+", "-"}
        body   == IF signed THEN Tail(s) ELSE s
    IN IF body = <<>> \/ \E i \in 1..Len(body) : ~IsDigit(body[i])
       THEN None
       ELSE Some(IF signed /\ s[1] = "-" THEN 0 - DigitsValue(body) ELSE DigitsValue(body))

\* list(map(int, ss)): Some(list), or None where an int raises ValueError
RECURSIVE MapInt(_)
MapInt(ss) ==
    IF ss = <<>> THEN Some(<<>>)
    ELSE LET n    == ParseInt(Head(ss))
             rest == MapInt(Tail(ss))
         IN IF n = None \/ rest = None THEN None ELSE Some(<<n[1]>> \o rest[1])

\* Python's a < b on lists of int
RECURSIVE ListLess(_, _)
ListLess(a, b) ==
    IF b = <<>> THEN FALSE
    ELSE IF a = <<>> THEN TRUE
    ELSE IF Head(a) # Head(b) THEN Head(a) < Head(b)
    ELSE ListLess(Tail(a), Tail(b))

----------------------------------------------------------------------------
(* Observable events.  kind is "print", "secho" or "run"; fg is the colour *)
(* of a secho; msg names the fixed part of the text or command; arg is the *)
(* variable part as a str.                                                 *)

Event(kind, fg, msg, arg) == [kind |-> kind, fg |-> fg, msg |-> msg, arg |-> arg]

----------------------------------------------------------------------------
(* print_header *)

LowerLetters == <<"a", "b", "c", "d", "e", "f", "g", "h", "i", "j", "k", "l", "m",
                  "n", "o", "p", "q", "r", "s", "t", "u", "v", "w", "x", "y", "z">>
UpperLetters == <<"A", "B", "C", "D", "E", "F", "G", "H", "I", "J", "K", "L", "M",
                  "N", "O", "P", "Q", "R", "S", "T", "U", "V", "W", "X", "Y", "Z">>

\* c.upper() for one character: a str, since the sharp s becomes two letters
UpperChar(c) ==
    IF c = ESZETT THEN <<"S", "S">>
    ELSE IF \E i \in 1..26 : LowerLetters[i] = c
         THEN <<UpperLetters[CHOOSE i \in 1..26 : LowerLetters[i] = c]>>
         ELSE <<c>>

\* s.upper()
RECURSIVE Upper(_)
Upper(s) == IF s = <<>> THEN <<>> ELSE UpperChar(Head(s)) \o Upper(Tail(s))

Fill(c, n) == [i \in 1..n |-> c]

\* "{:<fill>^<width>}".format(s): never truncates; of the missing width the
\* left side gets the half rounded down and the right side the rest
FormatCenter(s, fill, width) ==
    IF Len(s) >= width THEN s
    ELSE LET total == width - Len(s)
             left  == total \div 2
         IN Fill(fill, left) \o s \o Fill(fill, total - left)

HeaderLevelCharactersSwapped == (1 :> "=") @@ (2 :> "#") @@ (3 :> "-")

_HEADER_LEVEL_CHARACTERS == (1 :> "#") @@ (2 :> "=") @@ (3 :> "-")

CI_WIDTH == 80

PaddingLengthIconOnce(ic, ci, cols) ==
    IF ci # <<>> THEN CI_WIDTH ELSE Max(cols - Len(ic), 0)

\* lines 59-62; ic is the icon after line 56
PaddingLength(ic, ci, cols) ==
    IF ci # <<>> THEN CI_WIDTH ELSE Max(cols - (Len(ic) * 2), 0)

\* lines 55-56
IconWithSpace(ic) == IF ic # <<>> THEN ic \o <<" ">> ELSE ic

\* The call print_header(t, lv, ic) with the environment (ci, cols): the
\* exception it raises and the events it prints.
print_header(t, lv, ic, ci, cols) ==
    LET icon2 == IconWithSpace(ic) IN
    IF lv \notin DOMAIN _HEADER_LEVEL_CHARACTERS
    THEN [raised |-> "KeyError", out |-> <<>>]
    ELSE LET padding_character == _HEADER_LEVEL_CHARACTERS[lv]
             padding_length    == PaddingLength(icon2, ci, cols)
             text2             == IF lv = 1 THEN Upper(t) ELSE t
             body              == <<" ">> \o icon2 \o text2 \o <<" ">> \o icon2
             line              == <<NL>> \o FormatCenter(body, padding_character, padding_length)
                                        \o <<NL>>
         IN [raised |-> "none", out |-> <<Event("print", "", "header", line)>>]

----------------------------------------------------------------------------
(* switch_python_version *)

\* list(map(int, value.split("."))): Some(list), or None for a ValueError
VersionKey(value) == MapInt(Split(value, "."))

\* The characters of the query lines in the order of their code points
CodePointOrder ==
    <<"+", "-", ".", "0", "1", "2", "3", "4", "5", "6", "7", "8", "9">> \o LowerLetters

CharCode(c) == CHOOSE i \in 1..Len(CodePointOrder) : CodePointOrder[i] = c

RECURSIVE CharCodes(_)
CharCodes(value) ==
    IF value = <<>> THEN <<>> ELSE <<CharCode(Head(value))>> \o CharCodes(Tail(value))

\* The key under which sorted() would order the versions as plain str
SortKeyLexicographic(value) == Some(CharCodes(value))

\* line 90: the key= argument of sorted()
SortKey(value) == VersionKey(value)

\* Place x in a list sorted by key, behind the elements that do not sort after it
\* (sorted() is stable).
RECURSIVE InsertByKey(_, _)
InsertByKey(xs, x) ==
    IF xs = <<>> THEN <<x>>
    ELSE IF ListLess(SortKey(x)[1], SortKey(Head(xs))[1])
         THEN <<x>> \o xs
         ELSE <<Head(xs)>> \o InsertByKey(Tail(xs), x)

\* sorted(xs, key=SortKey)
RECURSIVE SortedByKey(_)
SortedByKey(xs) ==
    IF xs = <<>> THEN <<>>
    ELSE InsertByKey(SortedByKey(SubSeq(xs, 1, Len(xs) - 1)), xs[Len(xs)])

\* (_ for _ in lines if _)
RECURSIVE NonEmpty(_)
NonEmpty(ss) ==
    IF ss = <<>> THEN <<>>
    ELSE (IF Head(ss) # <<>> THEN <<Head(ss)>> ELSE <<>>) \o NonEmpty(Tail(ss))

\* line 89: the non-empty lines of the stdout of the query
QueryLines(stdout) == NonEmpty(Split(stdout, NL))

\* line 90: the key of some line raises ValueError, and so does sorted()
SortRaises(lines) == \E i \in 1..Len(lines) : SortKey(lines[i]) = None

\* lines 88-91, applied to a stdout whose lines all have a key
SortedVersions(stdout) == SortedByKey(QueryLines(stdout))

\* f"'{_}'" for every element
RECURSIVE Quoted(_)
Quoted(ss) ==
    IF ss = <<>> THEN <<>>
    ELSE <<(<<"'">> \o Head(ss) \o <<"'">>)>> \o Quoted(Tail(ss))

\* line 99
AvailablePythonVersions(vs) == Join(<<",", " ">>, Quoted(vs))

\* line 85: f"Switching to Python {version}"
SwitchingText(v) ==
    <<"S", "w", "i", "t", "c", "h", "i", "n", "g", " ", "t", "o", " ",
      "P", "y", "t", "h", "o", "n", " ">> \o v

\* Exit.code of invoke: the code given, else 1 with a message and 0 without
ExitCode(message, code) ==
    IF code # None THEN code[1] ELSE IF Truthy(message) THEN 1 ELSE 0

\* Exit status of a ctx.run whose command fails (warn is off): UnexpectedExit
COMMAND_FAILED == 1

\* Exit status of a task ended by an exception nothing catches
UNCAUGHT_EXCEPTION == 1

\* line 85
SwitchPrintHeader ==
    /\ pc = "header"
    /\ LET r == print_header(SwitchingText(version), 1, <<SNAKE>>, env_CIRCLECI, columns)
       IN /\ out' = out \o r.out
          /\ raised' = r.raised
          /\ pc' = IF r.raised = "none" THEN "query" ELSE "done"
    /\ UNCHANGED <<exit_code, envVars, headerVars, readVars, formatVars, switchVars>>

\* lines 88-91, the query succeeds and every line it prints has a key
RunQuery ==
    /\ pc = "query"
    /\ ~SortRaises(QueryLines(pyenv_stdout))
    /\ out' = Append(out, Event("run", "", "pyenv versions --bare", <<>>))
    /\ python_versions' = SortedVersions(pyenv_stdout)
    /\ scan_i' = 1
    /\ pc' = "scan"
    /\ UNCHANGED <<raised, exit_code, envVars, headerVars, readVars, formatVars,
                   version, pyenv_stdout, pyenv_python_version>>

\* The failed query run a second time, its failure then ignored
RunQueryFailsRetried ==
    /\ pc = "query"
    /\ out' = out \o <<Event("run", "", "pyenv versions --bare", <<>>),
                       Event("run", "", "pyenv versions --bare", <<>>)>>
    /\ python_versions' = SortedVersions(pyenv_stdout)
    /\ scan_i' = 1
    /\ pc' = "scan"
    /\ UNCHANGED <<raised, exit_code, envVars, headerVars, readVars, formatVars,
                   version, pyenv_stdout, pyenv_python_version>>

\* lines 88-91, the query succeeds and prints a line that is not dot-separated
\* integers: int() raises ValueError in the key of line 90, nothing catches it
RunQueryBadVersion ==
    /\ pc = "query"
    /\ SortRaises(QueryLines(pyenv_stdout))
    /\ out' = Append(out, Event("run", "", "pyenv versions --bare", <<>>))
    /\ raised' = "ValueError"
    /\ exit_code' = UNCAUGHT_EXCEPTION
    /\ pc' = "done"
    /\ UNCHANGED <<envVars, headerVars, readVars, formatVars, switchVars>>

\* line 89, the query exits with a failure: ctx.run raises
RunQueryFails ==
    /\ pc = "query"
    /\ out' = Append(out, Event("run", "", "pyenv versions --bare", <<>>))
    /\ raised' = "UnexpectedExit"
    /\ exit_code' = COMMAND_FAILED
    /\ pc' = "done"
    /\ UNCHANGED <<envVars, headerVars, readVars, formatVars, switchVars>>

\* lines 93-96, one iteration whose version starts with the request
ScanMatch ==
    /\ pc = "scan"
    /\ scan_i <= Len(python_versions)
    /\ StartsWith(python_versions[scan_i], version)
    /\ pyenv_python_version' = Some(python_versions[scan_i])
    /\ out' = Append(out, Event("secho", "green", "found", python_versions[scan_i]))
    /\ scan_i' = scan_i + 1
    /\ UNCHANGED <<pc, raised, exit_code, envVars, headerVars, readVars, formatVars,
                   version, pyenv_stdout, python_versions>>

\* lines 93-94, one iteration whose version does not
ScanSkip ==
    /\ pc = "scan"
    /\ scan_i <= Len(python_versions)
    /\ ~StartsWith(python_versions[scan_i], version)
    /\ scan_i' = scan_i + 1
    /\ UNCHANGED <<pc, out, raised, exit_code, envVars, headerVars, readVars, formatVars,
                   version, pyenv_stdout, python_versions, pyenv_python_version>>

\* lines 98-108
NotFound ==
    /\ pc = "scan"
    /\ scan_i > Len(python_versions)
    /\ ~Truthy(pyenv_python_version)
    /\ out' = out \o <<Event("secho", "red", "not found", version),
                       Event("print", "", "available",
                             AvailablePythonVersions(python_versions))>>
    /\ raised' = "Exit"
    /\ exit_code' = ExitCode(None, None)
    /\ pc' = "done"
    /\ UNCHANGED <<envVars, headerVars, readVars, formatVars, switchVars>>

\* lines 110-113, the command succeeds
RunSwitch ==
    /\ pc = "scan"
    /\ scan_i > Len(python_versions)
    /\ Truthy(pyenv_python_version)
    /\ out' = Append(out, Event("run", "", "switch", pyenv_python_version[1]))
    /\ pc' = "done"
    /\ UNCHANGED <<raised, exit_code, envVars, headerVars, readVars, formatVars, switchVars>>

\* lines 110-113, the command exits with a failure
RunSwitchFails ==
    /\ pc = "scan"
    /\ scan_i > Len(python_versions)
    /\ Truthy(pyenv_python_version)
    /\ out' = Append(out, Event("run", "", "switch", pyenv_python_version[1]))
    /\ raised' = "UnexpectedExit"
    /\ exit_code' = COMMAND_FAILED
    /\ pc' = "done"
    /\ UNCHANGED <<envVars, headerVars, readVars, formatVars, switchVars>>

\* Lines that `pyenv versions --bare` may print, and requests.  Next to the
\* CPython releases pyenv installs builds whose names are not dot-separated
\* integers, such as 3.12-dev and pypy3.9-7.3.9.
V(a, b, c) == <<a, ".", b, ".">> \o c

InstalledPool ==
    { V("3", "6", <<"1">>), V("3", "6", <<"9">>), V("3", "6", <<"1", "0">>),
      <<"3", ".", "1", "0", ".", "2">>, V("3", "1", <<"4">>), V("3", "9", <<"0">>),
      <<"3", ".", "1", "2", "-", "d", "e", "v">>,
      <<"p", "y", "p", "y", "3", ".", "9", "-", "7", ".", "3", ".", "9">> }

Requests ==
    { <<"3", ".", "6">>, <<"3", ".", "1">>, <<"3", ".", "1", "2">>,
      <<"3">>, V("3", "6", <<"1">>) }

\* Lists without repetition of at most n installed versions, in any order
RECURSIVE Listings(_)
Listings(n) ==
    IF n = 0 THEN {<<>>}
    ELSE LET shorter == Listings(n - 1)
             longer  == { lv \in shorter \X InstalledPool :
                            \A i \in 1..Len(lv[1]) : lv[1][i] # lv[2] }
         IN shorter \cup { Append(lv[1], lv[2]) : lv \in longer }

\* What `pyenv versions --bare` prints: one version per line
QueryOutput(listing) == Concat([i \in 1..Len(listing) |-> listing[i] \o <<NL>>])

IdleHeader == text = <<>> /\ level = 1 /\ icon = <<>>
IdleRead   == file_content = <<>> /\ strip_newline = TRUE /\ contents = None
IdleFormat == messages = <<>> /\ success_pattern = <<>>
IdleSwitch ==
    /\ version = <<>> /\ pyenv_stdout = <<>> /\ python_versions = <<>>
    /\ scan_i = 1 /\ pyenv_python_version = None

Init ==
    /\ pc = "header"
    /\ out = <<>>
    /\ raised = "none"
    /\ exit_code = 0
    /\ env_CIRCLECI \in {<<>>, <<"t", "r", "u", "e">>}
    /\ columns \in {MaxColumns, CI_WIDTH}
    /\ version \in Requests
    /\ pyenv_stdout \in { QueryOutput(l) : l \in Listings(MaxInstalled) }
    /\ python_versions = <<>>
    /\ scan_i = 1
    /\ pyenv_python_version = None
    /\ IdleHeader /\ IdleRead /\ IdleFormat

Next ==
    \/ SwitchPrintHeader
    \/ RunQuery
    \/ RunQueryBadVersion
    \/ RunQueryFails
    \/ ScanMatch
    \/ ScanSkip
    \/ NotFound
    \/ RunSwitch
    \/ RunSwitchFails

Spec == Init /\ [][Next]_vars

----------------------------------------------------------------------------
(* read_contents *)

Strings(alphabet, n) == UNION { [1..k -> alphabet] : k \in 0..n }

\* open(fpath, encoding="utf-8") reads in text mode with universal newlines:
\* "\r\n" and a lone "\r" reach the program as "\n"
RECURSIVE UniversalNewlines(_)
UniversalNewlines(raw) ==
    IF raw = <<>> THEN <<>>
    ELSE IF Head(raw) = CR
         THEN IF Len(raw) >= 2 /\ raw[2] = NL
              THEN <<NL>> \o UniversalNewlines(SubSeq(raw, 3, Len(raw)))
              ELSE <<NL>> \o UniversalNewlines(Tail(raw))
         ELSE <<Head(raw)>> \o UniversalNewlines(Tail(raw))

\* f_in.readlines(): the lines, each with its newline
RECURSIVE ReadLines(_)
ReadLines(s) ==
    IF s = <<>> THEN <<>>
    ELSE IF \E i \in 1..Len(s) : s[i] = NL
         THEN LET i == CHOOSE k \in 1..Len(s) :
                           s[k] = NL /\ \A j \in 1..(k - 1) : s[j] # NL
              IN <<SubSeq(s, 1, i)>> \o ReadLines(SubSeq(s, i + 1, Len(s)))
         ELSE <<s>>

RStripOne(s, c) ==
    IF s # <<>> /\ s[Len(s)] = c THEN SubSeq(s, 1, Len(s) - 1) ELSE s

\* s.rstrip(c) for a one-character c
RECURSIVE RStrip(_, _)
RStrip(s, c) ==
    IF s # <<>> /\ s[Len(s)] = c THEN RStrip(SubSeq(s, 1, Len(s) - 1), c) ELSE s

\* lines 32-36
read_contents(stored, strip) ==
    LET joined == Concat(ReadLines(UniversalNewlines(stored)))
    IN IF strip THEN RStrip(joined, NL) ELSE joined

ReadContents ==
    /\ pc = "call"
    /\ contents' = Some(read_contents(file_content, strip_newline))
    /\ pc' = "done"
    /\ UNCHANGED <<out, raised, exit_code, envVars, headerVars, formatVars, switchVars,
                   file_content, strip_newline>>

IdleEnv == env_CIRCLECI = <<>> /\ columns = CI_WIDTH

InitReadContents ==
    /\ pc = "call"
    /\ out = <<>>
    /\ raised = "none"
    /\ exit_code = 0
    /\ file_content \in Strings({"a", NL, CR}, MaxContentLen)
    /\ strip_newline \in BOOLEAN
    /\ contents = None
    /\ IdleEnv /\ IdleHeader /\ IdleFormat /\ IdleSwitch

NextReadContents == ReadContents

SpecReadContents == InitReadContents /\ [][NextReadContents]_vars

----------------------------------------------------------------------------
(* format_messages *)

\* A pattern is a sequence of items: "^", "$", a literal character or ".",
\* the last two possibly starred.
Item(t, c, star) == [t |-> t, c |-> c, star |-> star]
Bol     == Item("bol", "", FALSE)
Eol     == Item("eol", "", FALSE)
Lit(c)  == Item("lit", c, FALSE)
Dot     == Item("any", "", FALSE)
Star(i) == Item(i.t, i.c, TRUE)

\* "$" without re.MULTILINE: at the end, or before a newline that ends the string
AtEnd(s, pos) == pos = Len(s) \/ (pos = Len(s) - 1 /\ s[Len(s)] = NL)

\* "." matches a newline only under re.DOTALL
ItemTakes(it, c, dotall) ==
    IF it.t = "lit" THEN it.c = c ELSE dotall \/ c # NL

\* The positions at which a match of items i.. of p that starts at pos can end
RECURSIVE ReEnds(_, _, _, _, _)
ReEnds(p, s, i, pos, dotall) ==
    IF i > Len(p) THEN {pos}
    ELSE LET it == p[i]
             takes == pos < Len(s) /\ ItemTakes(it, s[pos + 1], dotall)
         IN CASE it.t = "bol" -> IF pos = 0 THEN ReEnds(p, s, i + 1, pos, dotall) ELSE {}
              [] it.t = "eol" -> IF AtEnd(s, pos) THEN ReEnds(p, s, i + 1, pos, dotall)
                                 ELSE {}
              [] OTHER ->
                   IF it.star
                   THEN ReEnds(p, s, i + 1, pos, dotall)
                        \cup (IF takes THEN ReEnds(p, s, i, pos + 1, dotall) ELSE {})
                   ELSE IF takes THEN ReEnds(p, s, i + 1, pos + 1, dotall) ELSE {}

\* re.fullmatch(p, s, re.DOTALL) is not None
re_fullmatch(p, s) == Len(s) \in ReEnds(p, s, 1, 0, TRUE)

\* re.match(p, s, re.DOTALL) is not None: a match that starts at the start
re_match(p, s) == ReEnds(p, s, 1, 0, TRUE) # {}

\* lines 39-43
format_messages(msgs, pattern) ==
    IF re_match(pattern, msgs)
    THEN <<Event("secho", "green", "No issues found.", <<>>)>>
    ELSE <<Event("print", "", "", msgs)>>

FormatMessages ==
    /\ pc = "call"
    /\ out' = format_messages(messages, success_pattern)
    /\ pc' = "done"
    /\ UNCHANGED <<raised, exit_code, envVars, headerVars, readVars, formatVars, switchVars>>

\* line 39: "^$"
DefaultSuccessPattern == <<Bol, Eol>>

PatternPool ==
    { DefaultSuccessPattern,
      <<Lit("a")>>,                    \* "a"
      <<Star(Lit("a"))>>,              \* "a*"
      <<Dot>>,                         \* "."
      <<Star(Dot)>>,                   \* ".*"
      <<Bol, Lit("a"), Eol>>,          \* "^a$"
      <<Lit("a"), Star(Dot), Eol>>,    \* "a.*$"
      <<Lit("b"), Eol>> }              \* "b$"

InitFormatMessages ==
    /\ pc = "call"
    /\ out = <<>>
    /\ raised = "none"
    /\ exit_code = 0
    /\ messages \in Strings({"a", "b", NL}, MaxMessageLen)
    /\ success_pattern \in PatternPool
    /\ IdleEnv /\ IdleHeader /\ IdleRead /\ IdleSwitch

NextFormatMessages == FormatMessages

SpecFormatMessages == InitFormatMessages /\ [][NextFormatMessages]_vars

----------------------------------------------------------------------------
(* print_header called on its own *)

Levels == 0..4

PrintHeader ==
    /\ pc = "call"
    /\ LET r == print_header(text, level, icon, env_CIRCLECI, columns)
       IN /\ out' = r.out
          /\ raised' = r.raised
    /\ pc' = "done"
    /\ UNCHANGED <<exit_code, envVars, headerVars, readVars, formatVars, switchVars>>

InitPrintHeader ==
    /\ pc = "call"
    /\ out = <<>>
    /\ raised = "none"
    /\ exit_code = 0
    /\ text \in Strings({"a", ESZETT}, MaxTextLen)
    /\ level \in Levels
    /\ icon \in {<<>>, <<SNAKE>>, <<"*", "*">>}
    /\ env_CIRCLECI \in {<<>>, <<"t", "r", "u", "e">>}
    /\ columns \in (0..MaxColumns) \cup {CI_WIDTH}
    /\ IdleRead /\ IdleFormat /\ IdleSwitch

NextPrintHeader == PrintHeader

SpecPrintHeader == InitPrintHeader /\ [][NextPrintHeader]_vars

----------------------------------------------------------------------------
(* Vocabulary of the properties *)

\* p is a prefix of s
IsPrefix(p, s) == Len(p) <= Len(s) /\ \A i \in 1..Len(p) : s[i] = p[i]

\* sub occurs in s
Contains(s, sub) ==
    \E k \in 0..(Len(s) - Len(sub)) : \A i \in 1..Len(sub) : s[k + i] = sub[i]

\* The installed versions: the non-empty lines the query prints
Installed ==
    LET lines == Split(pyenv_stdout, NL)
    IN { lines[i] : i \in { k \in 1..Len(lines) : lines[k] # <<>> } }

\* v is dot-separated integers: digits and dots, a digit on both sides of
\* every dot
IsIntegerVersion(v) ==
    /\ v # <<>>
    /\ \A i \in 1..Len(v) : v[i] = "." \/ IsDigit(v[i])
    /\ v[1] # "." /\ v[Len(v)] # "."
    /\ \A i \in 1..(Len(v) - 1) : ~(v[i] = "." /\ v[i + 1] = ".")

InstalledAreIntegerVersions == \A v \in Installed : IsIntegerVersion(v)

\* The installed versions that start with the request
Matching == { v \in Installed : IsPrefix(version, v) }

RunsOf(msg) == { i \in 1..Len(out) : out[i].kind = "run" /\ out[i].msg = msg }

QueryRuns  == RunsOf("pyenv versions --bare")
SwitchRuns == RunsOf("switch")

\* The task ended in the failure of the query
QueryFailed == pc = "done" /\ raised = "UnexpectedExit" /\ SwitchRuns = {}

IsHeader(e)   == e.kind = "print" /\ e.msg = "header"
IsQuery(e)    == e.kind = "run" /\ e.msg = "pyenv versions --bare"
IsFound(e)    == e.kind = "secho" /\ e.fg = "green" /\ e.msg = "found"
IsNotFound(e) == e.kind = "secho" /\ e.fg = "red" /\ e.msg = "not found"
IsGuidance(e) == e.kind = "print" /\ e.msg = "available"
IsSwitch(e)   == e.kind = "run" /\ e.msg = "switch"

----------------------------------------------------------------------------
(* Properties of switch_python_version, under Spec *)

\* C1: for installed versions that are dot-separated integers, when one of them
\* starts with the requested string, the version given to the switch command is
\* a matching version that no matching version exceeds when both are compared
\* as lists of integers.
C1_SwitchesToGreatestMatch ==
    InstalledAreIntegerVersions =>
        /\ \A i \in SwitchRuns :
              /\ out[i].arg \in Matching
              /\ \A w \in Matching :
                    ~ListLess(VersionKey(out[i].arg)[1], VersionKey(w)[1])
        /\ (pc = "done" /\ ~QueryFailed /\ Matching # {}) => SwitchRuns # {}

\* 3.6 requested with 3.6.10, 3.6.9 and 3.6.1 listed in this order: 3.6.10 is
\* neither the first match, nor the last listed, nor the greatest as a str.
C1_Witness ==
    /\ pc = "done"
    /\ version = <<"3", ".", "6">>
    /\ pyenv_stdout = QueryOutput(<<V("3", "6", <<"1", "0">>), V("3", "6", <<"9">>),
                                    V("3", "6", <<"1">>)>>)
    /\ \E i \in SwitchRuns : out[i].arg = V("3", "6", <<"1", "0">>)

\* C2: when no installed version starts with the requested string, the switch
\* command is never run, the query is the only command run, and a task whose
\* query succeeded ends by Exit after the header, the query, the red not-found
\* notice and the guidance, which names every installed version.
C2_NoMatchNoSwitch ==
    Matching = {} =>
        /\ SwitchRuns = {}
        /\ \A i \in 1..Len(out) : out[i].kind = "run" => IsQuery(out[i])
        /\ (pc = "done" /\ ~QueryFailed) =>
              /\ raised = "Exit"
              /\ Len(out) = 4
              /\ IsHeader(out[1]) /\ IsQuery(out[2])
              /\ IsNotFound(out[3]) /\ out[3].arg = version
              /\ IsGuidance(out[4])
              /\ \A v \in Installed : Contains(out[4].arg, <<"'">> \o v \o <<"'">>)

\* C3: the exit raised when nothing matches carries a non-zero exit code.
C3_NotFoundExitIsFailure == raised = "Exit" => exit_code # 0

\* C8: in a run where some installed version matches, the events are exactly
\* the header, the query, one green found notice and one switch command, and
\* the notice names the version given to the switch command.  Stated for the
\* runs whose installed versions are dot-separated integers.
C8_FoundRunIsFourEvents ==
    (pc = "done" /\ ~QueryFailed /\ Matching # {} /\ InstalledAreIntegerVersions) =>
        /\ Len(out) = 4
        /\ IsHeader(out[1]) /\ IsQuery(out[2]) /\ IsFound(out[3]) /\ IsSwitch(out[4])
        /\ out[3].arg = out[4].arg

\* C9: each command is run at most once, and a failed query ends the task with
\* that failure right after the header and the query: no notice, no switch.
C9_FailureIsHardStop ==
    /\ Cardinality(QueryRuns) <= 1
    /\ Cardinality(SwitchRuns) <= 1
    /\ raised = "UnexpectedExit" => (pc = "done" /\ exit_code # 0)
    /\ QueryFailed =>
          /\ Len(out) = 2
          /\ IsHeader(out[1]) /\ IsQuery(out[2])
    /\ (pc = "done" /\ raised = "UnexpectedExit") => IsQuery(out[Len(out)]) \/ IsSwitch(out[Len(out)])

\* The query failed although versions matching the request are installed
C9_Witness ==
    /\ QueryFailed
    /\ Matching # {}
    /\ Len(out) = 2

\* C10: for a request MAJOR.MINOR the version switched to has exactly these two
\* components first, and the task takes the not-found path when no installed
\* version has them.  The second part is stated for the runs whose installed
\* versions are dot-separated integers.
C10_SwitchedVersionHasRequestedMajorMinor ==
    Len(Split(version, ".")) = 2 =>
        /\ \A i \in SwitchRuns :
              /\ Len(VersionKey(out[i].arg)[1]) >= 2
              /\ SubSeq(VersionKey(out[i].arg)[1], 1, 2) = VersionKey(version)[1]
        /\ (/\ pc = "done" /\ ~QueryFailed /\ InstalledAreIntegerVersions
            /\ \A v \in Installed :
                  SubSeq(VersionKey(v)[1], 1, 2) # VersionKey(version)[1])
           => raised = "Exit"

----------------------------------------------------------------------------
(* Properties of format_messages, under SpecFormatMessages *)

SuccessNotice == Event("secho", "green", "No issues found.", <<>>)

Success == out = <<SuccessNotice>>

\* C4 as stated: the success notice is emitted exactly when the pattern matches
\* the whole message, otherwise the raw message is printed and nothing else;
\* with the default pattern only the empty message is a success.
C4_SuccessIffWholeMessageMatches ==
    pc = "done" =>
        /\ Success <=> re_fullmatch(success_pattern, messages)
        /\ ~Success => out = <<Event("print", "", "", messages)>>
        /\ success_pattern = DefaultSuccessPattern => (Success <=> messages = <<>>)

\* C4 amended: the success notice is emitted exactly when the pattern matches at
\* the start of the message, the match not having to reach its end; otherwise
\* the raw message is printed and nothing else.  With the default pattern the
\* successes are the empty message and the message that is one newline; "a"
\* succeeds on every message that starts with a, "." on every non-empty
\* message, ".*" on every message, "^a$" on a and on a followed by a newline.
C4_SuccessIffMatchAtStart ==
    pc = "done" =>
        /\ Len(out) = 1
        /\ Success <=> re_match(success_pattern, messages)
        /\ ~Success => out = <<Event("print", "", "", messages)>>
        /\ success_pattern = DefaultSuccessPattern =>
              (Success <=> messages \in {<<>>, <<NL>>})
        /\ success_pattern = <<Lit("a")>> => (Success <=> IsPrefix(<<"a">>, messages))
        /\ success_pattern = <<Dot>> => (Success <=> messages # <<>>)
        /\ success_pattern = <<Star(Dot)>> => Success
        /\ success_pattern = <<Bol, Lit("a"), Eol>> =>
              (Success <=> messages \in {<<"a">>, <<"a", NL>>})

\* The pattern "a" on the message ab: a success, though ab is not matched whole
C4_Witness ==
    /\ pc = "done"
    /\ success_pattern = <<Lit("a")>>
    /\ messages = <<"a", "b">>
    /\ Success

----------------------------------------------------------------------------
(* Properties of read_contents, under SpecReadContents *)

EndsInNewline(s) == s # <<>> /\ s[Len(s)] = NL

\* r is c without the newlines that end c
IsWithoutTrailingNewlines(r, c) ==
    /\ IsPrefix(r, c)
    /\ ~EndsInNewline(r)
    /\ \A i \in (Len(r) + 1)..Len(c) : c[i] = NL

HasCarriageReturn(c) == \E i \in 1..Len(c) : c[i] = CR

\* C5 as stated: without stripping the result is the file content; with it the
\* result is the content without its trailing newlines, the rest unchanged.
C5_ResultIsContent ==
    pc = "done" =>
        IF strip_newline
        THEN IsWithoutTrailingNewlines(contents[1], file_content)
        ELSE contents[1] = file_content

\* C5 amended: this holds of every content without a carriage return.  A
\* carriage return, alone or before a newline, is read as a newline, so the
\* result has no carriage return and is not longer than the content.  With the
\* strip flag the result of any content does not end in a newline, and stripping
\* it again changes nothing.
C5_ResultIsContentReadAsText ==
    pc = "done" =>
        LET r == contents[1] IN
        /\ ~HasCarriageReturn(file_content) =>
              IF strip_newline
              THEN IsWithoutTrailingNewlines(r, file_content)
              ELSE r = file_content
        /\ ~HasCarriageReturn(r)
        /\ Len(r) <= Len(file_content)
        /\ ~strip_newline => r = UniversalNewlines(file_content)
        /\ strip_newline => IsWithoutTrailingNewlines(r, UniversalNewlines(file_content))
        /\ strip_newline => (~EndsInNewline(r) /\ RStrip(r, NL) = r)

\* A content with an interior newline and two trailing ones, stripped
C5_Witness ==
    /\ pc = "done"
    /\ strip_newline
    /\ file_content = <<"a", NL, "a", NL, NL>>
    /\ contents = Some(<<"a", NL, "a">>)

----------------------------------------------------------------------------
(* Properties of print_header, under SpecPrintHeader *)

\* The line given to print, without the newlines around it
PrintedLine == SubSeq(out[1].arg, 2, Len(out[1].arg) - 1)

FillCharacters == {"#", "=", "-"}

ExpectedFill == CASE level = 1 -> "#" [] level = 2 -> "=" [] level = 3 -> "-"

\* Length of the icon after its trailing space is appended
IconLength == IF icon = <<>> THEN 0 ELSE Len(icon) + 1

TargetWidth ==
    IF env_CIRCLECI # <<>> THEN 80 ELSE Max(columns - 2 * IconLength, 0)

\* Length of text.upper(): the sharp s becomes SS
UpperLength(t) == Len(t) + Cardinality({ i \in 1..Len(t) : t[i] = ESZETT })

\* Length of " <icon><text> <icon>" with the text as printed
BodyLength == 2 + 2 * IconLength + (IF level = 1 THEN UpperLength(text) ELSE Len(text))

\* C6: at level 1, 2, 3 the header is filled with #, =, - respectively; at any
\* other level the call ends in a KeyError and prints nothing.
C6_FillCharacterByLevel ==
    pc = "done" =>
        IF level \in {1, 2, 3}
        THEN /\ raised = "none"
             /\ Len(out) = 1 /\ IsHeader(out[1])
             /\ { PrintedLine[i] : i \in 1..Len(PrintedLine) } \cap FillCharacters
                   \subseteq {ExpectedFill}
             /\ Len(PrintedLine) > BodyLength =>
                   PrintedLine[Len(PrintedLine)] = ExpectedFill
        ELSE raised = "KeyError" /\ out = <<>>

\* A level 2 header with fill on both sides
C6_Witness ==
    /\ pc = "done"
    /\ level = 2
    /\ Len(out) = 1
    /\ PrintedLine[1] = "=" /\ PrintedLine[Len(PrintedLine)] = "="

\* C7 as stated: the printed line is as long as the greater of the target width
\* and the length of " <icon><text> <icon>", text being the text given.
C7_LineLengthOfGivenText ==
    (pc = "done" /\ raised = "none") =>
        Len(PrintedLine) = Max(TargetWidth, 2 + 2 * IconLength + Len(text))

\* C7 amended: the same with the text as printed, which at level 1 is the text
\* in upper case and may be longer than the text given.
C7_LineLengthOfPrintedText ==
    (pc = "done" /\ raised = "none") =>
        /\ TargetWidth >= 0
        /\ Len(PrintedLine) =
              Max(TargetWidth, BodyLength)

\* No CI, a terminal narrower than twice the icon: the target width is 0 and
\* the line is the text with its icons
C7_Witness ==
    /\ pc = "done" /\ raised = "none"
    /\ env_CIRCLECI = <<>>
    /\ columns = 3
    /\ icon = <<"*", "*">>
    /\ text = <<"a", "a">>
    /\ Len(PrintedLine) = 10

====
